---- MODULE Spec2Model ----
(***************************************************************************)
(* State-machine model of the storage orchestration service of GoS3Api:    *)
(* the upload service (internal/upload service), its S3 repository, the    *)
(* HTTP handler's error mapping and the request timeout middleware.        *)
(*                                                                         *)
(* Strings the code inspects character by character (bucket names, file    *)
(* names) are sequences of one-character strings.  File contents are       *)
(* sequences of byte values.  A Go error is the sequence of the messages   *)
(* of its Unwrap chain, outermost first; the empty sequence is nil.        *)
(***************************************************************************)
EXTENDS Integers, Sequences, FiniteSets, TLC

VARIABLES
    phase,      \* "idle" | "running" | "returned": position of the current call
    req,        \* the call in progress: [op, via, bucket, key, id0]
                \* (id0: the identifiers handed out before the call)
    files,      \* the []*File argument of an upload call
    task,       \* per file: position and local result of its UploadFile run;
                \* first: no task had returned an error when this one did
    group,      \* the errgroup of UploadMultipleFiles: [err, cancelled]
    results,    \* the results slice of UploadMultipleFiles
    ret,        \* what the service call returned: [val, err]
    resp,       \* what the HTTP handler wrote: [status, body]
    calls,      \* the Repository method calls of the current call: in call
                \* order, those of concurrent upload tasks in task order
    nextId,     \* uuid generator: number of identifiers handed out so far
    mw          \* RequestTimeoutMiddleware serving one request: [pc, h, finished,
                \* ctx, writes] (its position, the handler goroutine's position,
                \* the channel's content, the context, the response writes)

vars == <<phase, req, files, task, group, results, ret, resp, calls, nextId, mw>>

-----------------------------------------------------------------------------
(* Bounds of the model *)

\* Largest number of files in one upload call.
MaxFiles == 2

\* Number of identifiers the generator hands out before the model stops
\* accepting new upload calls: enough for a second call after a first,
\* smaller one.
MaxIds == MaxFiles

-----------------------------------------------------------------------------
(* Strings *)

Min(S) == CHOOSE x \in S : \A y \in S : x <= y
Max(S) == CHOOSE x \in S : \A y \in S : x >= y

Range(s) == {s[i] : i \in 1..Len(s)}

\* Str("abc") is not expressible in TLC; strings are written as tuples.
UpperLetters ==
    <<"A","B","C","D","E","F","G","H","I","J","K","L","M",
      "N","O","P","Q","R","S","T","U","V","W","X","Y","Z">>
LowerLetters ==
    <<"a","b","c","d","e","f","g","h","i","j","k","l","m",
      "n","o","p","q","r","s","t","u","v","w","x","y","z">>
Digits == {"0","1","2","3","4","5","6","7","8","9"}

\* strings.ToLower on one ASCII character
ToLowerChar(c) ==
    IF \E i \in 1..Len(UpperLetters) : UpperLetters[i] = c
    THEN LowerLetters[CHOOSE i \in 1..Len(UpperLetters) : UpperLetters[i] = c]
    ELSE c

ToLower(s) == [i \in 1..Len(s) |-> ToLowerChar(s[i])]

IsSpace(c) == c \in {" ", "\t", "\n", "\r"}

TrimSpace(s) ==
    LET keep == {i \in 1..Len(s) : ~IsSpace(s[i])}
    IN  IF keep = {} THEN <<>> ELSE SubSeq(s, Min(keep), Max(keep))

\* strings.Contains(s, sub)
Contains(s, sub) ==
    \E i \in 1..(Len(s) - Len(sub) + 1) : SubSeq(s, i, i + Len(sub) - 1) = sub

\* strings.HasPrefix / bytes.HasPrefix
HasPrefix(s, p) == Len(s) >= Len(p) /\ SubSeq(s, 1, Len(p)) = p

-----------------------------------------------------------------------------
(* Errors *)

NoErr == <<>>

ErrBucketNameRequired  == <<"bucket name is required">>
ErrFileNotFound        == <<"file not found in storage">>
ErrInvalidFileType     == <<"file type not allowed or malicious content detected">>
ErrBucketAlreadyExists == <<"bucket already exists">>
ErrOperationTimeout    == <<"the operation timed out">>

ErrBucketLength   == <<"bucket name length must be between 3 and 63">>
ErrBucketPattern  == <<"invalid bucket name pattern">>
ErrBucketDots     == <<"bucket name cannot contain consecutive dots">>
ErrKeyRequired    == <<"file key is required">>

\* fmt.Errorf("msg: %w", err)
Wrap(msg, err) == <<msg>> \o err

\* errors.Is(err, target) for a sentinel target
ErrorsIs(err, target) == \E i \in 1..Len(err) : err[i] = target[1]

-----------------------------------------------------------------------------
(* Bucket name validation *)

maxBucketNameLength == 63
minBucketNameLength == 3

LowerAlnum == Range(LowerLetters) \cup Digits

\* ^[a-z0-9][a-z0-9.-]{1,61}[a-z0-9]$
bucketDNSNameRegex(s) ==
    /\ Len(s) >= 1 + 1 + 1
    /\ Len(s) <= 1 + 61 + 1
    /\ s[1] \in LowerAlnum
    /\ s[Len(s)] \in LowerAlnum
    /\ \A i \in 2..(Len(s) - 1) : s[i] \in LowerAlnum \cup {".", "-"}

\* validateBucketName with the length test off by one at the upper end
validateBucketName_LenMutant(bucket) ==
    LET b == TrimSpace(ToLower(bucket))
    IN  IF b = <<>> THEN ErrBucketNameRequired
        ELSE IF Len(b) < minBucketNameLength \/ Len(b) >= maxBucketNameLength
             THEN ErrBucketLength
        ELSE IF ~bucketDNSNameRegex(b) THEN ErrBucketPattern
        ELSE IF Contains(b, <<".", ".">>) THEN ErrBucketDots
        ELSE NoErr

validateBucketName(bucket) ==
    LET b == TrimSpace(ToLower(bucket))
    IN  IF b = <<>> THEN ErrBucketNameRequired
        ELSE IF Len(b) < minBucketNameLength \/ Len(b) > maxBucketNameLength
             THEN ErrBucketLength
        ELSE IF ~bucketDNSNameRegex(b) THEN ErrBucketPattern
        ELSE IF Contains(b, <<".", ".">>) THEN ErrBucketDots
        ELSE NoErr

-----------------------------------------------------------------------------
(* File content: streams and content sniffing *)

\* len(buffer) in validateFile, and net/http's sniffLen
sniffLen == 512

Rep(x, n) == [i \in 1..n |-> x]

PNGSig  == <<137, 80, 78, 71, 13, 10, 26, 10>>     \* "\x89PNG\r\n\x1a\n"
JPEGSig == <<255, 216, 255>>                       \* "\xFF\xD8\xFF"
PDFSig  == <<37, 80, 68, 70, 45>>                  \* "%PDF-"
GIFSig  == <<71, 73, 70, 56, 57, 97>>              \* "GIF89a"

\* The streams a File's Content can be: the bytes behind it and whether its
\* Read or Seek report an I/O error.  "nil" is a File without Content.
Streams ==
    [ png        |-> [data |-> PNGSig \o Rep(48, sniffLen),  readErr |-> FALSE, seekErr |-> FALSE],
      jpeg       |-> [data |-> JPEGSig \o <<224, 0, 16>>,    readErr |-> FALSE, seekErr |-> FALSE],
      pdf        |-> [data |-> PDFSig \o <<49, 46, 52>>,     readErr |-> FALSE, seekErr |-> FALSE],
      gif        |-> [data |-> GIFSig \o <<1, 0>>,           readErr |-> FALSE, seekErr |-> FALSE],
      text       |-> [data |-> <<104, 101, 108, 108, 111>>,  readErr |-> FALSE, seekErr |-> FALSE],
      bin        |-> [data |-> <<0, 1, 2>>,                  readErr |-> FALSE, seekErr |-> FALSE],
      empty      |-> [data |-> <<>>,                         readErr |-> FALSE, seekErr |-> FALSE],
      pngcut     |-> [data |-> SubSeq(PNGSig, 1, 4),         readErr |-> FALSE, seekErr |-> FALSE],
      latepng    |-> [data |-> Rep(104, sniffLen) \o PNGSig, readErr |-> FALSE, seekErr |-> FALSE],
      pngReadErr |-> [data |-> PNGSig \o Rep(48, 8),         readErr |-> TRUE,  seekErr |-> FALSE],
      pngSeekErr |-> [data |-> PNGSig \o Rep(48, 8),         readErr |-> FALSE, seekErr |-> TRUE],
      txtSeekErr |-> [data |-> <<104, 105>>,                 readErr |-> FALSE, seekErr |-> TRUE] ]

StreamIds == DOMAIN Streams

allowedTypes == {"image/jpeg", "image/png", "application/pdf"}

\* a byte the sniffer's text signature treats as binary
IsBinaryByte(b) ==
    \/ b <= 8
    \/ b = 11
    \/ (b >= 14 /\ b <= 26)
    \/ (b >= 28 /\ b <= 31)

\* http.DetectContentType, for the signatures the streams above exercise
DetectContentType(data) ==
    LET d == IF Len(data) > sniffLen THEN SubSeq(data, 1, sniffLen) ELSE data
    IN  IF HasPrefix(d, PDFSig) THEN "application/pdf"
        ELSE IF HasPrefix(d, GIFSig) THEN "image/gif"
        ELSE IF HasPrefix(d, PNGSig) THEN "image/png"
        ELSE IF HasPrefix(d, JPEGSig) THEN "image/jpeg"
        ELSE IF \A i \in 1..Len(d) : ~IsBinaryByte(d[i])
             THEN "text/plain; charset=utf-8"
        ELSE "application/octet-stream"

\* f.Content.Read(buffer): the bytes read and the position afterwards
ReadHeader(f) ==
    LET data == Streams[f.src].data
        n    == Min({sniffLen, Len(data) - f.pos})
    IN  [n |-> n, buf |-> SubSeq(data, f.pos + 1, f.pos + n)]

ErrNoSeeker == <<"file content must support seeking">>
ErrRead     == <<"failed to read file header", "read error">>
ErrSeek     == <<"failed to reset file pointer", "seek error">>

\* validateFile that skips the reset of the file pointer
validateFile_NoSeekMutant(f) ==
    IF f.src = "nil" THEN [err |-> ErrNoSeeker, file |-> f]
    ELSE IF Streams[f.src].readErr
         THEN [err |-> ErrRead, file |-> [f EXCEPT !.reads = @ + 1]]
    ELSE LET r  == ReadHeader(f)
             f1 == [f EXCEPT !.reads = @ + 1, !.pos = @ + r.n]
         IN  IF DetectContentType(r.buf) \notin allowedTypes
             THEN [err |-> ErrInvalidFileType, file |-> f1]
             ELSE [err |-> NoErr, file |-> f1]

\* validateFile: the error returned and the File's stream afterwards
validateFile(f) ==
    IF f.src = "nil" THEN [err |-> ErrNoSeeker, file |-> f]
    ELSE IF Streams[f.src].readErr
         THEN [err |-> ErrRead, file |-> [f EXCEPT !.reads = @ + 1]]
    ELSE LET r  == ReadHeader(f)
             f1 == [f EXCEPT !.reads = @ + 1, !.pos = @ + r.n]
         IN  IF Streams[f.src].seekErr
             THEN [err |-> ErrSeek, file |-> [f1 EXCEPT !.seeks = @ + 1]]
             ELSE LET f2 == [f1 EXCEPT !.seeks = @ + 1, !.pos = 0]
                  IN  IF DetectContentType(r.buf) \notin allowedTypes
                      THEN [err |-> ErrInvalidFileType, file |-> f2]
                      ELSE [err |-> NoErr, file |-> f2]

-----------------------------------------------------------------------------
(* File names and object keys *)

\* filepath.Ext: the suffix from the last dot of the last path element
Ext(path) ==
    LET seps == {i \in 1..Len(path) : path[i] = "/"}
        from == IF seps = {} THEN 1 ELSE Max(seps) + 1
        dots == {i \in from..Len(path) : path[i] = "."}
    IN  IF dots = {} THEN <<>> ELSE SubSeq(path, Max(dots), Len(path))

\* id.String() of the n-th identifier uuid.NewV7 hands out: one token, so
\* that two identifiers are equal exactly when their numbers are
IdString(n) == <<"uuid#" \o ToString(n)>>

\* a File as the caller hands it over
NewFile(name, src) ==
    [orig |-> name, Name |-> name, URL |-> <<>>, src |-> src,
     pos |-> 0, reads |-> 0, seeks |-> 0, id |-> 0]

-----------------------------------------------------------------------------
(* Object Store: S3Repository *)

region == <<"us-east-1">>

\* What the backend can answer besides success: the cause of the SDK's error.
ErrCtxCanceled == <<"context canceled">>
BackendCauses  == {<<"AccessDenied">>, <<"NoSuchBucket">>, <<"context deadline exceeded">>}
ErrNoSuchKey   == <<"NoSuchKey">>

NoRet  == [val |-> <<>>, err |-> <<"pending">>]
NoResp == [status |-> 0, body |-> <<>>]

\* fmt.Sprintf("https://%s.s3.%s.amazonaws.com/%s", bucket, r.region, key)
Locator(bucket, key) ==
    <<"https://">> \o bucket \o <<".s3.">> \o region \o <<".amazonaws.com/">> \o key

\* S3Repository.Upload that returns the SDK's error text without wrapping it
RepoUpload_NoWrapMutant(bucket, file, cause) ==
    IF cause # NoErr
    THEN [val |-> <<>>, err |-> <<"failed to upload">>]
    ELSE [val |-> Locator(bucket, file.Name), err |-> NoErr]

\* S3Repository.Upload, given what PutObject answered (NoErr: success)
RepoUpload(bucket, file, cause) ==
    IF cause # NoErr
    THEN [val |-> <<>>, err |-> Wrap("failed to upload", cause)]
    ELSE [val |-> Locator(bucket, file.Name), err |-> NoErr]

\* S3Repository.Download / GetPresignURL / Delete / CreateBucket /
\* DeleteBucket / DeleteAll / GetStats / ListBuckets: the SDK's error is
\* returned as it is
RepoPassThrough(val, cause) ==
    IF cause # NoErr THEN [val |-> <<>>, err |-> cause]
    ELSE [val |-> val, err |-> NoErr]

\* the existence check counting a HeadBucket error as a fault
RepoCheckBucketExists_FaultMutant(cause) ==
    IF cause = NoErr THEN [val |-> TRUE, err |-> NoErr]
    ELSE [val |-> FALSE, err |-> cause]

\* S3Repository.CheckBucketExists: any HeadBucket error means "no"
RepoCheckBucketExists(cause) == [val |-> (cause = NoErr), err |-> NoErr]

\* one entry of the Repository call log: the call, whether a request went to
\* the backend, what the backend answered (cause) and what the method returned
Call(method, bucket, key, i, net) ==
    [method |-> method, bucket |-> bucket, key |-> key, task |-> i,
     net |-> net, args |-> <<>>, cause |-> NoErr, out |-> NoRet]

-----------------------------------------------------------------------------
(* HTTP handler: error mapping *)

StatusOK == 200
StatusCreated == 201
StatusNoContent == 204
StatusBadRequest == 400
StatusNotFound == 404
StatusConflict == 409
StatusInternalServerError == 500
StatusGatewayTimeout == 504

\* Handler.handleError
handleError(err) ==
    IF ErrorsIs(err, ErrInvalidFileType) \/ ErrorsIs(err, ErrBucketNameRequired)
    THEN [status |-> StatusBadRequest, body |-> err]
    ELSE IF ErrorsIs(err, ErrBucketAlreadyExists)
    THEN [status |-> StatusConflict, body |-> err]
    ELSE IF ErrorsIs(err, ErrFileNotFound)
    THEN [status |-> StatusNotFound, body |-> err]
    ELSE IF ErrorsIs(err, ErrOperationTimeout)
    THEN [status |-> StatusGatewayTimeout, body |-> <<"request timed out">>]
    ELSE [status |-> StatusInternalServerError, body |-> <<"an unexpected error occurred">>]

\* the status each handler writes when the service call succeeded
SuccessStatus(op) ==
    CASE op \in {"UploadFile", "UploadMultipleFiles", "CreateBucket"} -> StatusCreated
      [] op \in {"DeleteFile", "DeleteBucket", "EmptyBucket"} -> StatusNoContent
      [] OTHER -> StatusOK

\* what the handler of `op` writes for the service result r
Respond(op, r) ==
    IF r.err = NoErr THEN [status |-> SuccessStatus(op), body |-> <<"ok">>]
    ELSE IF op \in {"GetBucketStats", "EmptyBucket"}
         THEN [status |-> StatusInternalServerError, body |-> r.err]
    ELSE handleError(r.err)

\* the response of a call: none when the service was called directly
RespFor(via, op, r) == IF via = "handler" THEN Respond(op, r) ELSE NoResp

-----------------------------------------------------------------------------
(* Service operations that make their Repository calls in one go *)

Failed(err) == [ret |-> [val |-> <<>>, err |-> err], calls |-> <<>>]

\* a Repository call and what it returned
Done(method, bucket, key, args, cause, out) ==
    [Call(method, bucket, key, 0, method # "GetPresignURL")
        EXCEPT !.out = out, !.args = args, !.cause = cause]

\* the service method that validates and then makes one pass-through call
ValidateThenCall(method, bucket, key, val, cause) ==
    LET v == validateBucketName(bucket)
    IN  IF v # NoErr THEN Failed(v)
        ELSE LET out == RepoPassThrough(val, cause)
             IN  [ret |-> out, calls |-> <<Done(method, bucket, key, <<>>, cause, out)>>]

\* uploadService.GetDownloadURL
GetDownloadURL(bucket, key, cause) ==
    ValidateThenCall("GetPresignURL", bucket, key, <<"presigned">>, cause)

\* uploadService.DownloadFile
DownloadFile(bucket, key, cause) ==
    ValidateThenCall("Download", bucket, key, <<"body">>, cause)

\* uploadService.DeleteFile
DeleteFile(bucket, key, cause) ==
    IF key = <<>> THEN Failed(ErrKeyRequired)
    ELSE ValidateThenCall("Delete", bucket, key, <<>>, cause)

\* uploadService.GetBucketStats
GetBucketStats(bucket, cause) ==
    ValidateThenCall("GetStats", bucket, <<>>, <<"stats">>, cause)

\* uploadService.DeleteBucket
DeleteBucket(bucket, cause) ==
    ValidateThenCall("DeleteBucket", bucket, <<>>, <<>>, cause)

\* uploadService.EmptyBucket
EmptyBucket(bucket, cause) ==
    ValidateThenCall("DeleteAll", bucket, <<>>, <<>>, cause)

\* uploadService.ListAllBuckets
ListAllBuckets(cause) ==
    LET out == RepoPassThrough(<<"buckets">>, cause)
    IN  [ret |-> out, calls |-> <<Done("ListBuckets", <<>>, <<>>, <<>>, cause, out)>>]

\* uploadService.CreateBucket; headCause is what HeadBucket answered
CreateBucket(bucket, headCause, cause) ==
    LET v == validateBucketName(bucket)
    IN  IF v # NoErr THEN Failed(v)
        ELSE LET ex   == RepoCheckBucketExists(headCause)
                 head == Done("CheckBucketExists", bucket, <<>>, <<>>, headCause, ex)
             IN  IF ex.err # NoErr THEN [ret |-> [val |-> <<>>, err |-> ex.err], calls |-> <<head>>]
                 ELSE IF ex.val
                 THEN [ret |-> [val |-> <<>>, err |-> ErrBucketAlreadyExists], calls |-> <<head>>]
                 ELSE LET out == RepoPassThrough(<<>>, cause)
                      IN  [ret |-> out,
                           calls |-> <<head, Done("CreateBucket", bucket, <<>>, <<>>, cause, out)>>]

\* A Go int (64 bits, two's complement) is the tuple of its four 16-bit
\* limbs, most significant first: TLC's own integers have 32 bits.
GoInt(n) == IF n >= 0 THEN <<0, 0, n \div 65536, n % 65536>>
            ELSE <<65535, 65535, (n + 2147483647 + 1) \div 65536 + 32768, (n + 2147483647 + 1) % 65536>>

\* limit <= 0
NonPositive(x) == x[1] >= 32768 \/ x = <<0, 0, 0, 0>>

\* int32(x): keeps the low 32 bits, read as a signed number
Int32(x) == IF x[3] >= 32768 THEN (x[3] - 65536) * 65536 + x[4]
            ELSE x[3] * 65536 + x[4]

\* FileSummary of one listed object (the fields the service reads)
FileSummary(bucket, key) ==
    [Key |-> key, Extension |-> ToLower(Ext(key)), URL |-> Locator(bucket, key)]

\* A *string of the SDK: nil, or a pointer to a string
NilString == [set |-> FALSE, val |-> <<>>]
AwsString(s) == [set |-> TRUE, val |-> s]

\* the request with the cursor sent even when the token is empty
ListObjectsV2Input_EmptyCursorMutant(bucket, prefix, token, limit) ==
    [Bucket |-> AwsString(bucket), Prefix |-> AwsString(prefix),
     ContinuationToken |-> AwsString(token), MaxKeys |-> limit]

\* S3Repository.List, lines 44-53: the request sent to ListObjectsV2
ListObjectsV2Input(bucket, prefix, token, limit) ==
    [Bucket |-> AwsString(bucket), Prefix |-> AwsString(prefix),
     ContinuationToken |-> IF token = <<>> THEN NilString ELSE AwsString(token),
     MaxKeys |-> limit]

\* what ListObjectsV2 answered: the keys of the page and the next cursor
ListObjectsV2Output(keys, next) == [Contents |-> keys, NextContinuationToken |-> next]

\* S3Repository.List from the backend's answer on; next is a *string
RepoList(bucket, prefix, token, limit, cause, keys, next) ==
    IF cause # NoErr
    THEN [val |-> <<>>, err |-> Wrap("failed to list objects", cause)]
    ELSE [val |-> [Files |-> [i \in 1..Len(keys) |-> FileSummary(bucket, keys[i])],
                   NextToken |-> IF next.set THEN next.val ELSE <<>>],
          err |-> NoErr]

\* the filter with the matches in reverse order
RECURSIVE Filter_ReorderMutant(_, _)
Filter_ReorderMutant(s, target) ==
    IF s = <<>> THEN <<>>
    ELSE IF ToLower(Head(s).Extension) = target
         THEN Filter_ReorderMutant(Tail(s), target) \o <<Head(s)>>
         ELSE Filter_ReorderMutant(Tail(s), target)

\* the entries of s whose lower-cased extension is target, in the order of s
RECURSIVE Filter(_, _)
Filter(s, target) ==
    IF s = <<>> THEN <<>>
    ELSE IF ToLower(Head(s).Extension) = target
         THEN <<Head(s)>> \o Filter(Tail(s), target)
         ELSE Filter(Tail(s), target)

\* uploadService.ListFiles
ListFiles(bucket, ext, token, limit, cause, keys, next) ==
    LET v == validateBucketName(bucket)
    IN  IF v # NoErr THEN Failed(v)
        ELSE LET lim  == IF NonPositive(limit) THEN GoInt(10) ELSE limit
                 out  == RepoList(bucket, <<>>, token, Int32(lim), cause, keys, next)
                 call == Done("List", bucket, <<>>,
                              [prefix |-> <<>>, token |-> token, limit |-> Int32(lim),
                               input  |-> ListObjectsV2Input(bucket, <<>>, token, Int32(lim)),
                               output |-> IF cause # NoErr
                                          THEN ListObjectsV2Output(<<>>, NilString)
                                          ELSE ListObjectsV2Output(keys, next)],
                              cause, out)
             IN  IF out.err # NoErr THEN [ret |-> [val |-> <<>>, err |-> out.err], calls |-> <<call>>]
                 ELSE IF ext = <<>> THEN [ret |-> out, calls |-> <<call>>]
                 ELSE LET low    == ToLower(ext)
                          target == IF HasPrefix(low, <<".">>) THEN low ELSE <<".">> \o low
                      IN  [ret |-> [val |-> [out.val EXCEPT !.Files = Filter(@, target)],
                                    err |-> NoErr],
                           calls |-> <<call>>]

-----------------------------------------------------------------------------
(* Upload: the pieces of UploadFile and UploadMultipleFiles *)

\* the rename left out: the File keeps the caller's name
Rename_KeepNameMutant(f, id) == [f EXCEPT !.id = id]

\* file.Name = id.String() + filepath.Ext(file.Name)
Rename(f, id) == [f EXCEPT !.Name = IdString(id) \o Ext(f.Name), !.id = id]

\* UploadFile from the Repository's answer on: the File and what is returned
UploadFilePut(f, out) ==
    IF out.err # NoErr THEN [file |-> f, val |-> <<>>, err |-> out.err]
    ELSE [file |-> [f EXCEPT !.URL = out.val], val |-> out.val, err |-> NoErr]

\* errgroup: a task returned err # nil; errOnce keeps the first and cancels
GroupFail(g, i, err) ==
    IF g.err = NoErr THEN [err |-> err, cancelled |-> TRUE] ELSE g

\* results filled in the order the tasks finish
StoreResult_ArrivalMutant(res, i, url) ==
    [res EXCEPT ![Min({k \in 1..Len(res) : res[k] = <<>>})] = url]

\* the task closure of UploadMultipleFiles: results[i] = url
StoreResult(res, i, url) == [res EXCEPT ![i] = url]

\* UploadMultipleFiles handing back what was uploaded along with the error
WaitResult_PartialMutant(g, res) ==
    IF g.err # NoErr THEN [val |-> res, err |-> g.err]
    ELSE [val |-> res, err |-> NoErr]

\* UploadMultipleFiles after g.Wait()
WaitResult(g, res) ==
    IF g.err # NoErr THEN [val |-> <<>>, err |-> g.err]
    ELSE [val |-> res, err |-> NoErr]

NoGroup == [err |-> NoErr, cancelled |-> FALSE]

NewTask == [pc |-> "start", val |-> <<>>, err |-> NoErr, first |-> FALSE]

\* the call log with task i's Upload call added
Logged(log, c) ==
    LET before == {k \in 1..Len(log) : log[k].task < c.task}
        n      == Cardinality(before)
    IN  SubSeq(log, 1, n) \o <<c>> \o SubSeq(log, n + 1, Len(log))

\* where task i's Upload call is in the log
CallOf(log, i) == CHOOSE k \in 1..Len(log) : log[k].task = i

IsUpload == phase = "running" /\ req.op \in {"UploadFile", "UploadMultipleFiles"}
IsBatch  == phase = "running" /\ req.op = "UploadMultipleFiles"

\* the context the task's Repository call runs under is already cancelled
CtxDone == IsBatch /\ group.cancelled

\* the task's UploadFile returns (val, err)
Return(i, val, err) ==
    task' = [task EXCEPT ![i] = [@ EXCEPT !.pc = "ret", !.val = val, !.err = err]]

Goto(i, pc) == task' = [task EXCEPT ![i].pc = pc]

\* UploadFile sniffing the content before it looks at the bucket name
ValidateBucketStep_SniffFirstMutant(i) ==
    /\ IsUpload /\ task[i].pc = "start"
    /\ files' = [files EXCEPT ![i] = validateFile(@).file]
    /\ LET v == validateBucketName(req.bucket)
       IN  IF v # NoErr THEN Return(i, <<>>, v) ELSE Goto(i, "bucketOK")
    /\ UNCHANGED <<phase, req, group, results, ret, resp, calls, nextId, mw>>

\* UploadFile, line 60: validateBucketName
ValidateBucketStep(i) ==
    /\ IsUpload /\ task[i].pc = "start"
    /\ LET v == validateBucketName(req.bucket)
       IN  IF v # NoErr THEN Return(i, <<>>, v) ELSE Goto(i, "bucketOK")
    /\ UNCHANGED <<phase, req, files, group, results, ret, resp, calls, nextId, mw>>

\* UploadFile, line 64: validateFile
ValidateFileStep(i) ==
    /\ IsUpload /\ task[i].pc = "bucketOK"
    /\ LET r == validateFile(files[i])
       IN  /\ files' = [files EXCEPT ![i] = r.file]
           /\ IF r.err # NoErr THEN Return(i, <<>>, r.err) ELSE Goto(i, "fileOK")
    /\ UNCHANGED <<phase, req, group, results, ret, resp, calls, nextId, mw>>

ErrUUID == <<"failed to generate unique id", "uuid: entropy source failed">>

\* UploadFile, lines 69-75: uuid.NewV7 and the rename
NewIdStep(i) ==
    /\ IsUpload /\ task[i].pc = "fileOK"
    /\ \/ /\ nextId' = nextId + 1
          /\ files' = [files EXCEPT ![i] = Rename(@, nextId + 1)]
          /\ Goto(i, "named")
       \/ /\ Return(i, <<>>, ErrUUID)
          /\ UNCHANGED <<files, nextId>>
    /\ UNCHANGED <<phase, req, group, results, ret, resp, calls, mw>>

\* the put started whatever the state of the context
PutBegin_IgnoreCtxMutant(i) ==
    /\ IsUpload /\ task[i].pc = "named"
    /\ Goto(i, "putting")
    /\ calls' = Logged(calls, Call("Upload", req.bucket, files[i].Name, i, TRUE))
    /\ UNCHANGED <<phase, req, files, group, results, ret, resp, nextId, mw>>

\* UploadFile, line 77: s.repo.Upload is called.  Under a cancelled context
\* the SDK returns the context's error without sending the request.
PutBegin(i) ==
    /\ IsUpload /\ task[i].pc = "named"
    /\ IF CtxDone
       THEN LET out == RepoUpload(req.bucket, files[i], ErrCtxCanceled)
                r   == UploadFilePut(files[i], out)
            IN  /\ Return(i, r.val, r.err)
                /\ calls' = Logged(calls, [Call("Upload", req.bucket, files[i].Name, i, FALSE)
                                              EXCEPT !.out = out, !.cause = ErrCtxCanceled])
       ELSE /\ Goto(i, "putting")
            /\ calls' = Logged(calls, Call("Upload", req.bucket, files[i].Name, i, TRUE))
    /\ UNCHANGED <<phase, req, files, group, results, ret, resp, nextId, mw>>

\* what PutObject can answer to a request that was sent
PutCauses ==
    {NoErr, <<"AccessDenied">>} \cup (IF CtxDone THEN {ErrCtxCanceled} ELSE {})

\* UploadFile, lines 77-85: s.repo.Upload returns
PutEnd(i) ==
    /\ IsUpload /\ task[i].pc = "putting"
    /\ \E cause \in PutCauses :
         LET out == RepoUpload(req.bucket, files[i], cause)
             r   == UploadFilePut(files[i], out)
         IN  /\ files' = [files EXCEPT ![i] = r.file]
             /\ Return(i, r.val, r.err)
             /\ calls' = [calls EXCEPT ![CallOf(calls, i)] =
                                        [@ EXCEPT !.out = out, !.cause = cause]]
    /\ UNCHANGED <<phase, req, group, results, ret, resp, nextId, mw>>

\* UploadMultipleFiles, lines 95-100, and errgroup's handling of the result
TaskReturn(i) ==
    /\ IsBatch /\ task[i].pc = "ret"
    /\ task' = [task EXCEPT ![i] = [@ EXCEPT
           !.pc = "done",
           !.first = /\ task[i].err # NoErr
                     /\ \A j \in DOMAIN task : ~(task[j].pc = "done" /\ task[j].err # NoErr)]]
    /\ IF task[i].err # NoErr
       THEN /\ group' = GroupFail(group, i, task[i].err)
            /\ UNCHANGED results
       ELSE /\ results' = StoreResult(results, i, task[i].val)
            /\ UNCHANGED group
    /\ UNCHANGED <<phase, req, files, ret, resp, calls, nextId, mw>>

\* UploadMultipleFiles returning as soon as the group has an error
WaitReturn_EarlyMutant ==
    /\ IsBatch
    /\ group.err # NoErr \/ \A i \in DOMAIN task : task[i].pc = "done"
    /\ phase' = "returned"
    /\ ret' = WaitResult(group, results)
    /\ resp' = RespFor(req.via, req.op, WaitResult(group, results))
    /\ group' = [group EXCEPT !.cancelled = TRUE]
    /\ UNCHANGED <<req, files, task, results, calls, nextId, mw>>

\* UploadMultipleFiles, lines 104-108: g.Wait() returns once every task has
WaitReturn ==
    /\ IsBatch
    /\ \A i \in DOMAIN task : task[i].pc = "done"
    /\ phase' = "returned"
    /\ ret' = WaitResult(group, results)
    /\ resp' = RespFor(req.via, req.op, WaitResult(group, results))
    /\ group' = [group EXCEPT !.cancelled = TRUE]
    /\ UNCHANGED <<req, files, task, results, calls, nextId, mw>>

\* UploadFile called on its own returns
UploadFileReturn ==
    /\ phase = "running" /\ req.op = "UploadFile"
    /\ task[1].pc = "ret"
    /\ phase' = "returned"
    /\ ret' = [val |-> task[1].val, err |-> task[1].err]
    /\ resp' = RespFor(req.via, req.op, [val |-> task[1].val, err |-> task[1].err])
    /\ task' = [task EXCEPT ![1].pc = "done"]
    /\ UNCHANGED <<req, files, group, results, calls, nextId, mw>>

-----------------------------------------------------------------------------
(* RequestTimeoutMiddleware *)

\* capacity of the channel `finished`
finishedCap == 1

\* no request is being served
NoMw == [pc |-> "idle", h |-> "none", finished |-> 0, ctx |-> "live", writes |-> <<>>]

\* the statuses the handlers of the routes write
HandlerStatuses ==
    { StatusOK, StatusCreated, StatusNoContent, StatusBadRequest, StatusNotFound,
      StatusConflict, StatusInternalServerError, StatusGatewayTimeout }

svcVars == <<phase, req, files, task, group, results, ret, resp, calls, nextId>>

\* lines 13-23: the context gets its deadline, the channel is made and the
\* goroutine that runs c.Next() is started
MwStart ==
    /\ mw.pc = "idle"
    /\ mw' = [NoMw EXCEPT !.pc = "select", !.h = "running"]
    /\ UNCHANGED svcVars

\* line 21: c.Next() runs the handler chain, which writes the response
HandlerWrite ==
    /\ mw.h = "running"
    /\ \E st \in HandlerStatuses :
         mw' = [mw EXCEPT !.h = "written",
                          !.writes = Append(@, [by |-> "handler", status |-> st])]
    /\ UNCHANGED svcVars

\* line 22: finished <- struct{}{}, which blocks while the channel is full
HandlerSend ==
    /\ mw.h = "written"
    /\ mw.finished < finishedCap
    /\ mw' = [mw EXCEPT !.h = "sent", !.finished = @ + 1]
    /\ UNCHANGED svcVars

\* the deadline of line 13 passes while the middleware waits
DeadlineExpires ==
    /\ mw.pc = "select" /\ mw.ctx = "live"
    /\ mw' = [mw EXCEPT !.ctx = "deadline"]
    /\ UNCHANGED svcVars

\* the request's own context is cancelled while the middleware waits
ParentCancelled ==
    /\ mw.pc = "select" /\ mw.ctx = "live"
    /\ mw' = [mw EXCEPT !.ctx = "canceled"]
    /\ UNCHANGED svcVars

\* lines 26-27: case <-finished
SelectFinished ==
    /\ mw.pc = "select" /\ mw.finished > 0
    /\ mw' = [mw EXCEPT !.pc = "returned", !.finished = @ - 1]
    /\ UNCHANGED svcVars

\* lines 28-33: case <-ctx.Done()
SelectDone ==
    /\ mw.pc = "select" /\ mw.ctx # "live"
    /\ mw' = [mw EXCEPT
                !.pc = "returned",
                !.writes = IF mw.ctx = "deadline"
                           THEN Append(@, [by |-> "middleware", status |-> StatusGatewayTimeout])
                           ELSE @]
    /\ UNCHANGED svcVars

\* the request is over: the middleware has returned and the goroutine ended
RequestOver ==
    /\ mw.pc = "returned" /\ mw.h = "sent"
    /\ mw' = NoMw
    /\ UNCHANGED svcVars

-----------------------------------------------------------------------------
(* The calls the model makes *)

ValidBucket == <<"m", "y", "-", "b">>

\* a name that passes validation only after trimming and case folding
PaddedBucket == <<" ", "M", "y", "B", "\t">>

Buckets ==
    { ValidBucket, PaddedBucket,
      <<>>,                            \* empty
      <<" ">>,                         \* empty after trimming
      <<"a", "b">>,                    \* too short
      <<"a", "_", "b">>,               \* pattern
      <<"a", ".", ".", "b">> }         \* consecutive dots

\* the bucket names of the multi-file uploads
BatchBuckets == { ValidBucket, <<>>, <<"a", "b">>, <<"a", ".", ".", "b">> }

InvalidBucket(b) == validateBucketName(b) # NoErr

Keys == { <<>>, <<"k", ".", "p", "n", "g">> }

Causes == {NoErr} \cup BackendCauses

PngName == <<"t", "e", "s", "t", "-", "i", "m", "a", "g", "e", ".", "p", "n", "g">>

FileSamples ==
    { NewFile(PngName, "png"),
      NewFile(<<"n", ".", "t", "x", "t">>, "text"),
      NewFile(<<"a", "r", "c">>, "jpeg") }

\* the Files of the single uploads: every name with every stream
FileNames ==
    { PngName,
      <<"a", "r", "c">>,                          \* no extension
      <<".", "r", "c">>,                          \* only an extension
      <<"d", ".", "d", "/", "f">>,                \* a dot in the directory only
      <<"a", ".", "t", "a", "r", ".", "g", "z">>,
      <<"x", ".">>,
      <<>> }

SingleFiles == {NewFile(n, src) : n \in FileNames, src \in StreamIds \cup {"nil"}}

\* every sequence over S of length at most n
RECURSIVE SeqsUpTo(_, _)
SeqsUpTo(S, n) ==
    IF n = 0 THEN {<<>>}
    ELSE LET shorter == SeqsUpTo(S, n - 1)
         IN  shorter \cup {Append(q, x) : q \in {r \in shorter : Len(r) = n - 1}, x \in S}

Vias == {"direct", "handler"}

Request(op, via, bucket, key) ==
    [op |-> op, via |-> via, bucket |-> bucket, key |-> key, id0 |-> nextId,
     args |-> <<>>]

\* an upload call starts: one UploadFile run per file
StartUpload(op, via, bucket, fs) ==
    /\ phase = "idle"
    /\ nextId + Len(fs) <= MaxIds
    /\ phase' = "running"
    /\ req' = Request(op, via, bucket, <<>>)
    /\ files' = fs
    /\ task' = [i \in 1..Len(fs) |-> NewTask]
    /\ group' = NoGroup
    /\ results' = IF op = "UploadMultipleFiles" THEN [i \in 1..Len(fs) |-> <<>>] ELSE <<>>
    /\ UNCHANGED <<ret, resp, calls, nextId, mw>>

\* a call that returns within the action; args: its further arguments
ReturnsWith(op, via, bucket, key, args, out) ==
    /\ phase = "idle"
    /\ phase' = "returned"
    /\ req' = [Request(op, via, bucket, key) EXCEPT !.args = args]
    /\ ret' = out.ret
    /\ calls' = out.calls
    /\ resp' = RespFor(via, op, out.ret)
    /\ UNCHANGED <<files, task, group, results, nextId, mw>>

\* a call that returns within the action
Returns(op, via, bucket, key, out) ==
    /\ phase = "idle"
    /\ phase' = "returned"
    /\ req' = Request(op, via, bucket, key)
    /\ ret' = out.ret
    /\ calls' = out.calls
    /\ resp' = RespFor(via, op, out.ret)
    /\ UNCHANGED <<files, task, group, results, nextId, mw>>

\* the handler answers without calling the service
Rejects(op, bucket, key, status, body) ==
    /\ phase = "idle"
    /\ phase' = "returned"
    /\ req' = Request(op, "handler", bucket, key)
    /\ resp' = [status |-> status, body |-> body]
    /\ UNCHANGED <<files, task, group, results, ret, calls, nextId, mw>>

\* Handler.UploadFile / a direct call of uploadService.UploadFile
DoUploadFile ==
    \E via \in Vias, b \in Buckets, f \in SingleFiles :
        StartUpload("UploadFile", via, b, <<f>>)

\* Handler.UploadFile without a usable "file" form field
DoUploadFileNoFile ==
    \E b \in Buckets, opened \in BOOLEAN :
        IF opened
        THEN Rejects("UploadFile", b, <<>>, StatusInternalServerError, <<"failed to open file">>)
        ELSE Rejects("UploadFile", b, <<>>, StatusBadRequest, <<"file field is required">>)

\* Handler.UploadMultiple, which calls uploadService.UploadMultipleFiles.
\* The handler skips the parts it cannot open: with `unopened` such parts the
\* request is non-empty even when no File reaches the service.
DoUploadMultiple ==
    \E b \in BatchBuckets, fs \in SeqsUpTo(FileSamples, MaxFiles), unopened \in {0, 1} :
        IF Len(fs) + unopened = 0
        THEN Rejects("UploadMultipleFiles", b, <<>>, StatusBadRequest, <<"no files provided">>)
        ELSE StartUpload("UploadMultipleFiles", "handler", b, fs)

DoGetDownloadURL ==
    \E via \in Vias, b \in Buckets, k \in Keys, c \in Causes :
        Returns("GetDownloadURL", via, b, k, GetDownloadURL(b, k, c))

DoDownloadFile ==
    \E via \in Vias, b \in Buckets, k \in Keys, c \in Causes \cup {ErrNoSuchKey} :
        Returns("DownloadFile", via, b, k, DownloadFile(b, k, c))

DoDeleteFile ==
    \E via \in Vias, b \in Buckets, k \in Keys, c \in Causes :
        Returns("DeleteFile", via, b, k, DeleteFile(b, k, c))

DoGetBucketStats ==
    \E via \in Vias, b \in Buckets, c \in Causes :
        IF via = "handler" /\ b = <<>>
        THEN Rejects("GetBucketStats", b, <<>>, StatusBadRequest, <<"bucket parameter is required">>)
        ELSE Returns("GetBucketStats", via, b, <<>>, GetBucketStats(b, c))

DoEmptyBucket ==
    \E via \in Vias, b \in Buckets, c \in Causes :
        IF via = "handler" /\ b = <<>>
        THEN Rejects("EmptyBucket", b, <<>>, StatusBadRequest, <<"bucket parameter is required">>)
        ELSE Returns("EmptyBucket", via, b, <<>>, EmptyBucket(b, c))

DoDeleteBucket ==
    \E via \in Vias, b \in Buckets, c \in Causes :
        Returns("DeleteBucket", via, b, <<>>, DeleteBucket(b, c))

DoCreateBucket ==
    \E via \in Vias, b \in Buckets, h \in Causes, c \in Causes :
        IF via = "handler" /\ b = <<>>
        THEN Rejects("CreateBucket", b, <<>>, StatusBadRequest, <<"valid bucket_name is required">>)
        ELSE Returns("CreateBucket", via, b, <<>>, CreateBucket(b, h, c))

DoListAllBuckets ==
    \E via \in Vias, c \in Causes :
        Returns("ListAllBuckets", via, <<>>, <<>>, ListAllBuckets(c))

\* extension filters: none, with and without the dot, in mixed case, and one
\* that matches nothing
ListExts ==
    { <<>>,
      <<".", "P", "N", "G">>,
      <<"p", "n", "g">>,
      <<"P", "n", "g">>,
      <<"t", "x", "t">>,
      <<"p", "d", "f">> }

ListTokens == { <<>>, <<"tok1">> }

\* the next cursor of the backend's answer
NextTokens == { NilString, AwsString(<<"tok2">>) }

ListLimits ==
    { GoInt(-1), GoInt(0), GoInt(5),
      <<32768, 0, 0, 0>>,              \* the smallest int
      <<0, 1, 0, 0>>,                  \* 2^32
      <<0, 1, 0, 5>> }                 \* 2^32 + 5

\* the keys of the page the backend answers with
ListPages ==
    { <<>>,
      << <<"a", ".", "p", "n", "g">>, <<"b", ".", "t", "x", "t">>, <<"I", ".", "P", "N", "G">> >>,
      << <<"b", ".", "t", "x", "t">>, <<"z", ".", "P", "n", "g">>, <<"p", "n", "g">>,
         <<"a", ".", "p", "n", "g">> >> }

\* the list calls made: every filter on every page with every cursor under
\* one limit, and every limit on the largest page
ListCases ==
    { [ext |-> e, token |-> t, limit |-> GoInt(5), cause |-> c, keys |-> keys, next |-> n] :
        e \in ListExts, t \in ListTokens, c \in {NoErr, <<"AccessDenied">>},
        keys \in ListPages, n \in NextTokens }
    \cup
    { [ext |-> e, token |-> t, limit |-> l, cause |-> NoErr, keys |-> keys, next |-> NilString] :
        e \in {<<>>, <<"p", "n", "g">>}, t \in ListTokens, l \in ListLimits,
        keys \in {k \in ListPages : Len(k) = 4} }

\* Handler.ListFiles / a direct call of uploadService.ListFiles
DoListFiles ==
    \E via \in Vias, b \in Buckets, x \in ListCases :
        ReturnsWith("ListFiles", via, b, x.ext, <<x.token, x.limit>>,
                    ListFiles(b, x.ext, x.token, x.limit, x.cause, x.keys, x.next))

\* the next call: nothing of the finished one is kept but the generator
Reset ==
    /\ phase = "returned"
    /\ phase' = "idle"
    /\ req' = [Request("none", "direct", <<>>, <<>>) EXCEPT !.id0 = 0]
    /\ files' = <<>>
    /\ task' = <<>>
    /\ group' = NoGroup
    /\ results' = <<>>
    /\ ret' = NoRet
    /\ resp' = NoResp
    /\ calls' = <<>>
    /\ UNCHANGED <<nextId, mw>>

Init ==
    /\ phase = "idle"
    /\ req = [op |-> "none", via |-> "direct", bucket |-> <<>>, key |-> <<>>, id0 |-> 0,
              args |-> <<>>]
    /\ files = <<>>
    /\ task = <<>>
    /\ group = NoGroup
    /\ results = <<>>
    /\ ret = NoRet
    /\ resp = NoResp
    /\ calls = <<>>
    /\ nextId = 0
    /\ mw = NoMw

UploadSteps ==
    \/ \E i \in DOMAIN task : ValidateBucketStep(i)
    \/ \E i \in DOMAIN task : ValidateFileStep(i)
    \/ \E i \in DOMAIN task : NewIdStep(i)
    \/ \E i \in DOMAIN task : PutBegin(i)
    \/ \E i \in DOMAIN task : PutEnd(i)
    \/ \E i \in DOMAIN task : TaskReturn(i)
    \/ WaitReturn
    \/ UploadFileReturn

Next ==
    \/ DoUploadFile
    \/ DoUploadFileNoFile
    \/ DoUploadMultiple
    \/ DoGetDownloadURL
    \/ DoDownloadFile
    \/ DoDeleteFile
    \/ DoGetBucketStats
    \/ DoEmptyBucket
    \/ DoDeleteBucket
    \/ DoCreateBucket
    \/ DoListAllBuckets
    \/ DoListFiles
    \/ UploadSteps
    \/ Reset

Spec == Init /\ [][Next]_vars

\* one request after another through the timeout middleware
NextTimeout ==
    \/ MwStart
    \/ HandlerWrite
    \/ HandlerSend
    \/ DeadlineExpires
    \/ ParentCancelled
    \/ SelectFinished
    \/ SelectDone
    \/ RequestOver

SpecTimeout == Init /\ [][NextTimeout]_vars

-----------------------------------------------------------------------------
(* The bucket name validator on its own *)

\* s, t, s, t, ... of length n
Alt(s, t, n) == [i \in 1..n |-> IF i % 2 = 1 THEN s ELSE t]

EdgeChars == {"a", "Z", "0", ".", "-", "_"}
MidChars  == {"a", "Z", "9", ".", "-", "_", " "}

\* lengths of the middle part that put the name at both ends of the allowed
\* range and just outside it
MidLens ==
    { 0, 1, 2,
      maxBucketNameLength - 3, maxBucketNameLength - 2, maxBucketNameLength - 1 }

Paddings == { <<<<>>, <<>>>>, <<<<" ">>, <<>>>>, <<<<"\t", " ">>, <<"\n">>>> }

BucketInputs ==
    { p[1] \o <<f>> \o Alt(m1, m2, n) \o <<l>> \o p[2] :
        p \in Paddings, f \in EdgeChars, l \in EdgeChars,
        m1 \in MidChars, m2 \in MidChars, n \in MidLens }
    \cup { p[1] \o body \o p[2] :
             p \in Paddings, body \in {<<>>} \cup {<<c>> : c \in EdgeChars} }

InitBucket ==
    /\ phase = "idle"
    /\ \E b \in BucketInputs :
         req = [op |-> "validateBucketName", via |-> "direct", bucket |-> b,
                key |-> <<>>, id0 |-> 0, args |-> <<>>]
    /\ files = <<>>
    /\ task = <<>>
    /\ group = NoGroup
    /\ results = <<>>
    /\ ret = NoRet
    /\ resp = NoResp
    /\ calls = <<>>
    /\ nextId = 0
    /\ mw = NoMw

\* uploadService.validateBucketName applied to the drawn name
ValidateBucketNameCall ==
    /\ phase = "idle"
    /\ req.op = "validateBucketName"
    /\ phase' = "returned"
    /\ ret' = [val |-> <<>>, err |-> validateBucketName(req.bucket)]
    /\ UNCHANGED <<req, files, task, group, results, resp, calls, nextId, mw>>

SpecBucket == InitBucket /\ [][ValidateBucketNameCall]_vars

-----------------------------------------------------------------------------
(* Properties *)

BucketOps ==
    { "UploadFile", "UploadMultipleFiles", "GetDownloadURL", "DownloadFile",
      "ListFiles", "DeleteFile", "GetBucketStats", "CreateBucket",
      "DeleteBucket", "EmptyBucket" }

\* the service method was entered and has returned
ServiceReturned == phase = "returned" /\ ret # NoRet

\* C1 (as claimed): a bucket-taking service operation called with a bucket
\* name that fails the emptiness, length or pattern rules never calls a
\* Repository method and, once it has returned, has returned an error.
C1_InvalidBucketRejected ==
    (req.op \in BucketOps /\ InvalidBucket(req.bucket)) =>
        /\ calls = <<>>
        /\ ServiceReturned => ret.err # NoErr

\* C7: validateBucketName decides on the trimmed, case-folded name b:
\* ErrBucketNameRequired exactly when b is empty; otherwise the length error
\* exactly when Len(b) is outside 3..63; otherwise the pattern error unless b
\* starts and ends with a lower-case alphanumeric and has only lower-case
\* alphanumerics, dots and hyphens in between; otherwise the consecutive-dots
\* error when b holds ".."; and nil in every remaining case.  Nothing but the
\* returned error changes.
C7_Verdict(bucket) ==
    LET b       == TrimSpace(ToLower(bucket))
        alnum(c) == \E k \in 1..Len(LowerLetters) : LowerLetters[k] = c \/ c \in Digits
        inner(c) == alnum(c) \/ c = "." \/ c = "-"
        twoDots == \E k \in 1..(Len(b) - 1) : b[k] = "." /\ b[k + 1] = "."
    IN  IF Len(b) = 0 THEN ErrBucketNameRequired
        ELSE IF Len(b) < 3 \/ Len(b) > 63 THEN ErrBucketLength
        ELSE IF ~(alnum(b[1]) /\ alnum(b[Len(b)]) /\ \A k \in 2..(Len(b) - 1) : inner(b[k]))
             THEN ErrBucketPattern
        ELSE IF twoDots THEN ErrBucketDots
        ELSE NoErr

\* C7: every call of validateBucketName returns exactly the verdict stated
\* above for its argument (required, length, pattern, consecutive dots, nil,
\* decided in that order on the trimmed, lower-cased name) and touches no
\* repository, file, identifier or response.
C7_BucketNameVerdict ==
    (req.op = "validateBucketName" /\ phase = "returned") =>
        /\ ret.err = C7_Verdict(req.bucket)
        /\ calls = <<>> /\ files = <<>> /\ nextId = 0 /\ resp = NoResp

\* a padded, mixed-case name of the largest allowed length was accepted
C7_Witness ==
    /\ req.op = "validateBucketName" /\ phase = "returned"
    /\ ret.err = NoErr
    /\ Len(TrimSpace(req.bucket)) = 63
    /\ Len(req.bucket) > 63
    /\ ToLower(req.bucket) # req.bucket
    /\ Contains(req.bucket, <<".">>)

-----------------------------------------------------------------------------
(* Upload properties *)

UploadOps == {"UploadFile", "UploadMultipleFiles"}

\* indices of the Upload calls in the call log
UploadCalls == {k \in 1..Len(calls) : calls[k].method = "Upload"}

\* task i has called s.repo.Upload
HasCall(i) == \E k \in UploadCalls : calls[k].task = i

\* the log entry of task i's Upload call
Entry(i) == calls[CallOf(calls, i)]

BatchReturned ==
    phase = "returned" /\ req.op = "UploadMultipleFiles" /\ ret # NoRet

\* the errors validateFile returns
FileErrs == {ErrNoSeeker, ErrRead, ErrSeek, ErrInvalidFileType}

\* C2: when UploadMultipleFiles returns and at least one task failed, it
\* returns a nil list together with the error of the task that was the first
\* to return an error, whatever its index; it returns a list only when no
\* task failed, so never a partial one.
C2_AllOrNothing ==
    BatchReturned =>
        LET failed == {i \in DOMAIN task : task[i].err # NoErr}
        IN  /\ failed # {} =>
                /\ ret.val = <<>>
                /\ \E i \in failed :
                     /\ task[i].first
                     /\ ret.err = task[i].err
                     /\ \A j \in failed \ {i} : ~task[j].first
            /\ ret.err = NoErr => (failed = {} /\ Len(ret.val) = Len(files))

\* both tasks failed, with different errors, the second one first: its error
\* is the one returned
C2_Witness ==
    /\ BatchReturned /\ Len(files) = 2
    /\ task[1].err # NoErr /\ task[2].err # NoErr
    /\ task[1].err # task[2].err
    /\ task[2].first
    /\ ret = [val |-> <<>>, err |-> task[2].err]

\* C3: slot j of the result sequence holds the locator the backend returned
\* to task j once task j has finished without error and is empty otherwise
\* (no task writes another task's slot); when every task succeeded the
\* returned sequence has one element per input file, the i-th being the
\* locator returned for the i-th file.
C3_ResultsMirrorInputs ==
    (req.op = "UploadMultipleFiles" /\ phase \in {"running", "returned"}) =>
        /\ \A j \in DOMAIN results :
             results[j] = IF task[j].pc = "done" /\ task[j].err = NoErr
                          THEN Entry(j).out.val ELSE <<>>
        /\ (BatchReturned /\ \A i \in DOMAIN task : task[i].err = NoErr) =>
             /\ Len(ret.val) = Len(files)
             /\ \A i \in DOMAIN task :
                  /\ ret.val[i] = Entry(i).out.val
                  /\ Entry(i).key = files[i].Name
                  /\ files[i].Name = IdString(files[i].id) \o Ext(files[i].orig)

\* two files uploaded, the second one having drawn its identifier first
C3_Witness ==
    /\ BatchReturned /\ Len(files) = 2 /\ ret.err = NoErr
    /\ files[2].id < files[1].id
    /\ ret.val[1] # ret.val[2]
    /\ ret.val[1] = files[1].URL /\ ret.val[2] = files[2].URL

\* C4: in every UploadFile run: if the bucket name is invalid the File's
\* stream is never read or seeked; if content validation failed no
\* identifier was drawn for the File, its name is the caller's and Upload
\* was not called for it; and Upload is called only for a valid bucket and a
\* File that passed content validation and carries its new name.
C4_FailFastOrder ==
    (req.op \in UploadOps /\ phase \in {"running", "returned"}) =>
        /\ nextId = req.id0 + Cardinality({i \in DOMAIN files : files[i].id # 0})
        /\ \A i \in DOMAIN task :
             LET f == files[i]
             IN  /\ InvalidBucket(req.bucket) => (f.reads = 0 /\ f.seeks = 0 /\ f.pos = 0)
                 /\ task[i].err \in FileErrs =>
                      (f.id = 0 /\ f.Name = f.orig /\ ~HasCall(i))
                 /\ HasCall(i) =>
                      /\ ~InvalidBucket(req.bucket)
                      /\ validateFile(NewFile(f.orig, f.src)).err = NoErr
                      /\ f.reads = 1 /\ f.seeks = 1
                      /\ f.id > 0
                      /\ f.Name = IdString(f.id) \o Ext(f.orig)
                      /\ Entry(i).key = f.Name

\* one File of a batch was rejected by content validation, untouched by the
\* generator and the backend, while the other one was put
C4_Witness ==
    /\ BatchReturned /\ Len(files) = 2
    /\ task[1].err = ErrInvalidFileType
    /\ files[1].reads = 1 /\ files[1].id = 0 /\ files[1].Name = files[1].orig
    /\ ~HasCall(1)
    /\ HasCall(2) /\ Entry(2).net

\* task i's UploadFile has run validateFile
Validated(i) ==
    /\ req.op \in UploadOps /\ phase \in {"running", "returned"}
    /\ ~InvalidBucket(req.bucket)
    /\ task[i].pc \notin {"start", "bucketOK"}

\* the first up-to-512 bytes of a stream
Header(src) ==
    LET data == Streams[src].data
    IN  SubSeq(data, 1, Min({sniffLen, Len(data)}))

\* C5 (as claimed): validateFile accepts a seekable stream whose reset works
\* exactly when the type detected from its first up-to-512 bytes is allowed,
\* and then leaves the stream at offset 0; for every other detected type the
\* error is ErrInvalidFileType; a stream that cannot seek or whose reset
\* fails is rejected with an error.
C5_Original ==
    \A i \in DOMAIN task : Validated(i) =>
        LET f == files[i]
        IN  IF f.src = "nil" \/ Streams[f.src].seekErr
            THEN task[i].err \in FileErrs
            ELSE IF DetectContentType(Header(f.src)) \in allowedTypes
            THEN /\ task[i].err \notin FileErrs
                 /\ task[i].pc \in {"fileOK", "named"} => f.pos = 0
            ELSE task[i].err = ErrInvalidFileType

\* C5 (amended): validateFile rejects a File without a seekable stream;
\* otherwise, when reading the header fails (other than by end of stream) it
\* rejects with the read error and does not seek; otherwise, when the reset
\* fails it rejects with an error; otherwise it accepts exactly when the type
\* detected from the first up-to-512 bytes is image/jpeg, image/png or
\* application/pdf, leaving the stream at offset 0 after one read and one
\* seek, and returns ErrInvalidFileType for every other detected type.
C5_ContentValidation ==
    \A i \in DOMAIN task : Validated(i) =>
        LET f == files[i]
        IN  IF f.src = "nil" THEN task[i].err = ErrNoSeeker /\ f.reads = 0
            ELSE IF Streams[f.src].readErr
            THEN task[i].err = ErrRead /\ f.reads = 1 /\ f.seeks = 0
            ELSE IF Streams[f.src].seekErr
            THEN task[i].err \in FileErrs /\ f.seeks = 1
            ELSE IF DetectContentType(Header(f.src)) \in allowedTypes
            THEN /\ task[i].err \notin FileErrs
                 /\ f.reads = 1 /\ f.seeks = 1
                 /\ task[i].pc \in {"fileOK", "named"} => f.pos = 0
            ELSE task[i].err = ErrInvalidFileType

\* a PNG stream longer than the sniffed header was accepted and is back at
\* offset 0
C5_Witness ==
    /\ req.op = "UploadFile" /\ phase = "running"
    /\ task[1].pc = "fileOK"
    /\ Len(Streams[files[1].src].data) > sniffLen
    /\ DetectContentType(Header(files[1].src)) = "image/png"
    /\ files[1].reads = 1 /\ files[1].pos = 0

\* C6: the key of every Upload call is an identifier drawn during this call
\* followed by the extension of the caller's file name, and is not the
\* caller's file name; no two Upload calls of one call carry the same
\* identifier.
C6_ObjectKeys ==
    \A k \in UploadCalls :
        LET e == calls[k]
            f == files[e.task]
        IN  /\ f.id > req.id0 /\ f.id <= nextId
            /\ e.key = IdString(f.id) \o Ext(f.orig)
            /\ e.key # f.orig
            /\ \A k2 \in UploadCalls \ {k} :
                 /\ files[calls[k2].task].id # f.id
                 /\ Head(calls[k2].key) # Head(e.key)

\* a batch put two objects, one whose name had an extension and one whose
\* name had none
C6_Witness ==
    /\ BatchReturned /\ Cardinality(UploadCalls) = 2
    /\ Ext(files[1].orig) # <<>> /\ Len(calls[1].key) = 1 + Len(Ext(files[1].orig))
    /\ Ext(files[2].orig) = <<>> /\ Len(calls[2].key) = 1

\* C8: once an UploadFile run that called Upload is over: if the backend
\* accepted the object the run returns the locator Upload returned, with no
\* error, and the File's URL is that locator; if the backend failed the run
\* returns an empty locator and an error whose chain holds the backend's
\* error, and the File's URL is still unset.  A single UploadFile call
\* returns what its run returned.
C8_UploadFileResult ==
    (req.op \in UploadOps /\ phase \in {"running", "returned"}) =>
        /\ \A i \in DOMAIN task : (HasCall(i) /\ task[i].pc \in {"ret", "done"}) =>
             LET e == Entry(i)
             IN  IF e.cause = NoErr
                 THEN /\ e.out = [val |-> Locator(req.bucket, e.key), err |-> NoErr]
                      /\ task[i].val = e.out.val /\ task[i].err = NoErr
                      /\ files[i].URL = e.out.val
                 ELSE /\ task[i].val = <<>>
                      /\ task[i].err # NoErr /\ ErrorsIs(task[i].err, e.cause)
                      /\ files[i].URL = <<>>
        /\ (req.op = "UploadFile" /\ ServiceReturned) =>
             ret = [val |-> task[1].val, err |-> task[1].err]

\* a single upload whose put the backend refused: the returned error wraps
\* the backend's
C8_Witness ==
    /\ req.op = "UploadFile" /\ ServiceReturned
    /\ HasCall(1) /\ Entry(1).cause = <<"AccessDenied">>
    /\ ret.val = <<>> /\ Len(ret.err) = 2 /\ ErrorsIs(ret.err, <<"AccessDenied">>)
    /\ files[1].URL = <<>> /\ files[1].Name # files[1].orig

-----------------------------------------------------------------------------
(* Response properties *)

\* the validation failures of the service
ValidationErrs ==
    {ErrBucketNameRequired, ErrBucketLength, ErrBucketPattern, ErrBucketDots, ErrKeyRequired}

\* C9 (as claimed): every validation failure the service returns to a
\* handler gets the response category that the handler gives to
\* ErrBucketNameRequired.
C9_ValidationOneCategory ==
    (ServiceReturned /\ req.via = "handler" /\ ret.err \in ValidationErrs) =>
        resp.status = handleError(ErrBucketNameRequired).status

\* C10 (as claimed): when the backend answers DownloadFile's get with "no
\* such key", the error DownloadFile returns is ErrFileNotFound and the
\* handler answers 404.
C10_NotFoundClassified ==
    (req.op = "DownloadFile" /\ ServiceReturned /\ calls # <<>>
        /\ calls[1].cause = ErrNoSuchKey) =>
        /\ ErrorsIs(ret.err, ErrFileNotFound)
        /\ req.via = "handler" => resp.status = StatusNotFound

\* the error kinds the handler has a response category for
RecognisedErrs ==
    { ErrBucketNameRequired, ErrFileNotFound, ErrInvalidFileType,
      ErrBucketAlreadyExists, ErrOperationTimeout }

Recognised(err) == \E e \in RecognisedErrs : ErrorsIs(err, e)

\* C11 (as claimed): whenever the service returns to a handler an error that
\* is none of the recognised kinds, the response is 500 with the fixed
\* message "an unexpected error occurred", whatever the text of the error:
\* two runs that differ only in that text get the same response.
C11_GenericFailure ==
    (ServiceReturned /\ req.via = "handler" /\ ret.err # NoErr /\ ~Recognised(ret.err)) =>
        resp = [status |-> StatusInternalServerError,
                body   |-> <<"an unexpected error occurred">>]

-----------------------------------------------------------------------------
(* CreateBucket *)

\* CreateBucket was called with a name that passes validation and has returned
CreateReturned ==
    req.op = "CreateBucket" /\ ServiceReturned /\ ~InvalidBucket(req.bucket)

\* C12: CreateBucket with a valid name first makes the existence check.  A
\* HeadBucket error makes the check report false, without an error.  When
\* the check reports true, CreateBucket returns ErrBucketAlreadyExists and
\* the backend's createBucket is not called.  When it reports false,
\* createBucket is called exactly once, after the check, and CreateBucket
\* returns what that call returned.
C12_CreateBucket ==
    CreateReturned =>
        /\ Len(calls) >= 1
        /\ calls[1].method = "CheckBucketExists"
        /\ calls[1].bucket = req.bucket
        /\ calls[1].out = [val |-> (calls[1].cause = NoErr), err |-> NoErr]
        /\ \A k \in 2..Len(calls) : calls[k].method # "CheckBucketExists"
        /\ IF calls[1].out.val
           THEN /\ Len(calls) = 1
                /\ ret.err = ErrBucketAlreadyExists
           ELSE /\ Len(calls) = 2
                /\ calls[2].method = "CreateBucket"
                /\ calls[2].bucket = req.bucket
                /\ ret = calls[2].out

\* the existence check failed at the backend and the bucket was then created
C12_Witness ==
    /\ CreateReturned
    /\ Len(calls) = 2
    /\ calls[1].cause # NoErr
    /\ calls[2].method = "CreateBucket" /\ calls[2].cause = NoErr
    /\ ret.err = NoErr

-----------------------------------------------------------------------------
(* ListFiles *)

\* ListFiles was called with a name that passes validation and has returned
ListReturned ==
    req.op = "ListFiles" /\ ServiceReturned /\ ~InvalidBucket(req.bucket)

\* the lower-cased filter, with a dot in front unless it has one
DotLower(ext) ==
    LET low == [k \in 1..Len(ext) |-> ToLowerChar(ext[k])]
    IN  IF Len(low) > 0 /\ low[1] = "." THEN low ELSE <<".">> \o low

\* C13: a ListFiles call that fetched a page returns, for a non-empty filter
\* "ext" or ".ext" in any letter case, exactly the entries of that page whose
\* lower-cased extension is the lower-cased, dot-prefixed filter, in the
\* order of the page; with an empty filter it returns the page as it is.
C13_ExtensionFilter ==
    (ListReturned /\ ret.err = NoErr) =>
        LET page == calls[1].out.val.Files
            want(f) == ToLower(f.Extension) = DotLower(req.key)
        IN  IF req.key = <<>>
            THEN ret.val.Files = page
            ELSE ret.val.Files = SelectSeq(page, want)

\* a mixed-case filter without the dot kept the two png entries of a page,
\* one of them upper-case at the backend, and dropped the others
C13_Witness ==
    /\ ListReturned /\ ret.err = NoErr
    /\ req.key = <<"P", "n", "g">>
    /\ Len(calls[1].out.val.Files) = 4
    /\ Len(ret.val.Files) = 2
    /\ ret.val.Files[1].Key = <<"z", ".", "P", "n", "g">>
    /\ ret.val.Files[2].Key = <<"a", ".", "p", "n", "g">>

\* C14: a ListFiles call with a valid name makes exactly one Repository call,
\* List, with an empty prefix and the caller's token; the request sent to the
\* backend has no continuation cursor when that token is empty and carries
\* the token itself otherwise.  When the call succeeds the returned next-page
\* token is the backend's ("" when the backend gave none), whatever the
\* filter removed.
C14_PaginationPassThrough ==
    ListReturned =>
        /\ Len(calls) = 1
        /\ calls[1].method = "List"
        /\ calls[1].args.prefix = <<>>
        /\ calls[1].args.token = req.args[1]
        /\ calls[1].args.input.Prefix = AwsString(<<>>)
        /\ calls[1].args.input.ContinuationToken =
               IF req.args[1] = <<>> THEN NilString ELSE AwsString(req.args[1])
        /\ ret.err = NoErr =>
               ret.val.NextToken =
                   IF calls[1].args.output.NextContinuationToken.set
                   THEN calls[1].args.output.NextContinuationToken.val
                   ELSE <<>>

\* the filter removed every entry of a non-empty page and the backend's next
\* token came back; the call was made without a cursor
C14_Witness ==
    /\ ListReturned /\ ret.err = NoErr
    /\ req.args[1] = <<>>
    /\ calls[1].args.input.ContinuationToken = NilString
    /\ Len(calls[1].out.val.Files) > 0
    /\ ret.val.Files = <<>>
    /\ ret.val.NextToken = <<"tok2">>

\* C15 (as claimed): the page size of the List call is the normalized limit:
\* 10 when the caller's limit is zero or negative, the caller's limit itself
\* otherwise, and so always positive.
C15_PageSize ==
    ListReturned =>
        LET limit == req.args[2]
            size  == calls[1].args.input.MaxKeys
        IN  /\ GoInt(size) = IF NonPositive(limit) THEN GoInt(10) ELSE limit
            /\ size > 0

-----------------------------------------------------------------------------
(* Cancellation and termination of the upload tasks *)

C17_WaitsForAllTasks ==
    BatchReturned =>
        /\ Len(task) = Len(files)
        /\ \A i \in DOMAIN task :
             /\ task[i].pc = "done"
             /\ task[i].err = NoErr => results[i] = task[i].val
        /\ \A k \in UploadCalls : calls[k].out # NoRet

\* the call returned an error although the put of another task went through:
\* that task had finished before the call returned
C17_Witness ==
    /\ BatchReturned /\ Len(files) = 2
    /\ ret.err # NoErr
    /\ \E i, j \in DOMAIN task :
         /\ task[j].first
         /\ task[i].err = NoErr /\ HasCall(i) /\ Entry(i).out.err = NoErr
         /\ results[i] = Entry(i).out.val

-----------------------------------------------------------------------------
(* The bucket name that reaches the Repository *)

\* the naming rules applied to the string itself
NameWellFormed(b) ==
    /\ b = ToLower(b)
    /\ b = TrimSpace(b)
    /\ Len(b) >= minBucketNameLength /\ Len(b) <= maxBucketNameLength
    /\ bucketDNSNameRegex(b)
    /\ ~Contains(b, <<".", ".">>)

\* C19 (as claimed): every bucket name that a bucket-taking service
\* operation passes to a Repository method satisfies the naming rules itself:
\* lower-case, no surrounding whitespace, length 3..63, the allowed pattern
\* and no consecutive dots.
C19_ValidatedNameReachesBackend ==
    req.op \in BucketOps =>
        \A k \in 1..Len(calls) : NameWellFormed(calls[k].bucket)

-----------------------------------------------------------------------------
(* The timeout middleware *)

\* C18 (as claimed): under RequestTimeoutMiddleware a request's response has
\* one writer: the handler chain when it completes before the deadline, the
\* middleware with its 504 when the deadline expires, and in no interleaving
\* both; and the handler goroutine is never blocked on signalling that it has
\* finished.
C18_OneResponseWriter ==
    /\ \A a, b \in 1..Len(mw.writes) : mw.writes[a].by = mw.writes[b].by
    /\ mw.h = "written" => mw.finished < finishedCap

====
